---- MODULE Spec2Model ----
(***************************************************************************)
(* gh-autopr, src/git_ops.rs: the git/gh workflow operations.              *)
(*                                                                         *)
(* Text is a sequence of one-character strings.  Bytes captured from a     *)
(* subprocess are such a sequence too, and may hold Invalid, a byte        *)
(* sequence that is not UTF-8.  Every operation is an operator from the    *)
(* outcomes of the commands it may run to the ordered list of effects it   *)
(* has (commands run, sink entries, renders, chdir, exit) and how it ends. *)
(***************************************************************************)
EXTENDS Integers, Sequences, FiniteSets, TLC

VARIABLES
    trace,       \* every effect of the process so far, in order
    sink,        \* the App's log/error entries (append-only observer)
    cwd,         \* the process working directory
    terminated,  \* std::process::exit was called
    call,        \* the last call of an operation: arguments, effects, result
    stage,       \* the pipeline's position
    ctx          \* the pipeline's repository context

vars == <<trace, sink, cwd, terminated, call, stage, ctx>>

\* ---------------------------------------------------------------- bounds
\* longest run of whitespace put around a generated text
MaxPad == 1
\* longest commit title / details
MaxLen == 2
\* most "origin/" prefixes in front of a resolved default-branch name
MaxPrefix == 2

\* ------------------------------------------------------------------ text
Whitespace == {" ", "\n"}
Invalid == "<invalid-utf8>"
Replacement == "<U+FFFD>"
HEAD == <<"H", "E", "A", "D">>
OriginPrefix == <<"o", "r", "i", "g", "i", "n", "/">>

SeqsUpTo(S, n) == UNION {[1..k -> S] : k \in 0..n}

Tail2(s, n) == SubSeq(s, n + 1, Len(s))

RECURSIVE trim_start(_)
trim_start(s) ==
    IF s # <<>> /\ Head(s) \in Whitespace THEN trim_start(Tail(s)) ELSE s

RECURSIVE trim_end(_)
trim_end(s) ==
    IF s # <<>> /\ s[Len(s)] \in Whitespace
    THEN trim_end(SubSeq(s, 1, Len(s) - 1))
    ELSE s

trim(s) == trim_end(trim_start(s))

starts_with(s, p) == Len(s) >= Len(p) /\ SubSeq(s, 1, Len(p)) = p

RECURSIVE trim_start_matches(_, _)
trim_start_matches(s, p) ==
    IF p # <<>> /\ starts_with(s, p)
    THEN trim_start_matches(Tail2(s, Len(p)), p)
    ELSE s

\* ---------------------------------------------------------------- results
Unit == <<>>
Ok(v) == [ok |-> TRUE, val |-> v, err |-> ""]
Err(e) == [ok |-> FALSE, val |-> Unit, err |-> e]
Utf8Error == "invalid utf-8 sequence"
IoError == "io error"

from_utf8(b) ==
    IF \E i \in 1..Len(b) : b[i] = Invalid THEN Err(Utf8Error) ELSE Ok(b)

from_utf8_lossy(b) ==
    [i \in 1..Len(b) |-> IF b[i] = Invalid THEN Replacement ELSE b[i]]

\* ------------------------------------------------- subprocess invocation
\* What Command::output() gave: the spawn may fail (an io error); otherwise
\* an exit status with the captured stdout and stderr.
SpawnFailed == [spawned |-> FALSE, success |-> FALSE, stdout |-> <<>>, stderr |-> <<>>]
Failed(e) == [spawned |-> TRUE, success |-> FALSE, stdout |-> <<>>, stderr |-> e]
Succeeded(out) == [spawned |-> TRUE, success |-> TRUE, stdout |-> out, stderr |-> <<>>]

\* argv elements: a literal of the source, or a text computed at run time
Lit(s) == [lit |-> s, str |-> <<>>]
Str(v) == [lit |-> "", str |-> v]
Command(prog, args, out) == [type |-> "cmd", prog |-> prog, args |-> args, out |-> out]

\* ------------------------------------------------------------- collaborators
add_log(level, fmt, args) == [type |-> "add_log", level |-> level, fmt |-> fmt, args |-> args]
add_error(msg) == [type |-> "add_error", msg |-> msg]
render_message(title, msg, color, ok) == [type |-> "render", title |-> title, msg |-> msg, color |-> color, ok |-> ok]
set_current_dir(path, ok) == [type |-> "chdir", path |-> path, ok |-> ok]
exit(code) == [type |-> "exit", code |-> code]

\* how a call ends: it returns a Result, or the process exits inside it
Returns(ev, r) == [ev |-> ev, how |-> "return", ret |-> r]
Exits(ev) == [ev |-> ev, how |-> "exit", ret |-> Err("")]

\* ------------------------------------------------------------- git_ops.rs
EnsureInRepoCmd(o) ==
    Command("git", <<Lit("rev-parse"), Lit("--is-inside-work-tree")>>, o)

\* the failed check is logged and handed back as an error instead of exiting
git_ensure_in_repo_no_exit(o) ==
    IF ~o.spawned THEN Returns(<<EnsureInRepoCmd(o)>>, Err(IoError))
    ELSE IF ~o.success
    THEN Returns(<<EnsureInRepoCmd(o), add_log("ERROR", "Not in a git repository.", <<>>)>>,
                 Err("Not in a git repository."))
    ELSE Returns(<<EnsureInRepoCmd(o)>>, Ok(Unit))

git_ensure_in_repo(o) ==
    IF ~o.spawned THEN Returns(<<EnsureInRepoCmd(o)>>, Err(IoError))
    ELSE IF ~o.success
    THEN Exits(<<EnsureInRepoCmd(o),
                 add_log("ERROR", "Not in a git repository.", <<>>),
                 exit(1)>>)
    ELSE Returns(<<EnsureInRepoCmd(o)>>, Ok(Unit))

DetachedMsg == "Detached HEAD state detected. Please check out a branch."

\* the sentinel compared in the wrong case
git_ensure_not_detached_head_lowercase(branch_name, render_ok) ==
    IF branch_name = <<"h", "e", "a", "d">>
    THEN IF render_ok
         THEN Exits(<<add_log("ERROR", DetachedMsg, <<>>),
                      render_message("Error", DetachedMsg, "Red", TRUE),
                      exit(1)>>)
         ELSE Returns(<<add_log("ERROR", DetachedMsg, <<>>),
                        render_message("Error", DetachedMsg, "Red", FALSE)>>,
                      Err(IoError))
    ELSE Returns(<<>>, Ok(Unit))

git_ensure_not_detached_head(branch_name, render_ok) ==
    IF branch_name = HEAD
    THEN IF render_ok
         THEN Exits(<<add_log("ERROR", DetachedMsg, <<>>),
                      render_message("Error", DetachedMsg, "Red", TRUE),
                      exit(1)>>)
         ELSE Returns(<<add_log("ERROR", DetachedMsg, <<>>),
                        render_message("Error", DetachedMsg, "Red", FALSE)>>,
                      Err(IoError))
    ELSE Returns(<<>>, Ok(Unit))

ShowToplevelCmd(o) ==
    Command("git", <<Lit("rev-parse"), Lit("--show-toplevel")>>, o)

\* the directory is changed to the raw output first, then to the trimmed one
git_cd_to_repo_root_twice(o, chdir_ok) ==
    IF ~o.spawned THEN Returns(<<ShowToplevelCmd(o)>>, Err(IoError))
    ELSE IF o.success
    THEN IF ~from_utf8(o.stdout).ok
         THEN Returns(<<ShowToplevelCmd(o)>>, Err(Utf8Error))
         ELSE IF ~chdir_ok
              THEN Returns(<<ShowToplevelCmd(o),
                             set_current_dir(from_utf8(o.stdout).val, FALSE)>>,
                           Err(IoError))
              ELSE Returns(<<ShowToplevelCmd(o),
                             set_current_dir(from_utf8(o.stdout).val, TRUE),
                             set_current_dir(trim(from_utf8(o.stdout).val), TRUE),
                             add_log("INFO", "Changed directory to repo root: {}",
                                     <<trim(from_utf8(o.stdout).val)>>)>>,
                           Ok(Unit))
    ELSE Returns(<<ShowToplevelCmd(o), add_error(from_utf8_lossy(o.stderr))>>, Ok(Unit))

\* a failed show-toplevel aborts like the other guard checks
git_cd_to_repo_root_strict(o, chdir_ok) ==
    IF ~o.spawned THEN Returns(<<ShowToplevelCmd(o)>>, Err(IoError))
    ELSE IF o.success
    THEN IF ~from_utf8(o.stdout).ok
         THEN Returns(<<ShowToplevelCmd(o)>>, Err(Utf8Error))
         ELSE IF ~chdir_ok
              THEN Returns(<<ShowToplevelCmd(o),
                             set_current_dir(trim(from_utf8(o.stdout).val), FALSE)>>,
                           Err(IoError))
              ELSE Returns(<<ShowToplevelCmd(o),
                             set_current_dir(trim(from_utf8(o.stdout).val), TRUE),
                             add_log("INFO", "Changed directory to repo root: {}",
                                     <<trim(from_utf8(o.stdout).val)>>)>>,
                           Ok(Unit))
    ELSE Returns(<<ShowToplevelCmd(o), add_error(from_utf8_lossy(o.stderr))>>,
                 Err("Failed to find repo root"))

git_cd_to_repo_root(o, chdir_ok) ==
    IF ~o.spawned THEN Returns(<<ShowToplevelCmd(o)>>, Err(IoError))
    ELSE IF o.success
    THEN IF ~from_utf8(o.stdout).ok
         THEN Returns(<<ShowToplevelCmd(o)>>, Err(Utf8Error))
         ELSE LET repo_root == trim(from_utf8(o.stdout).val) IN
              IF ~chdir_ok
              THEN Returns(<<ShowToplevelCmd(o), set_current_dir(repo_root, FALSE)>>,
                           Err(IoError))
              ELSE Returns(<<ShowToplevelCmd(o),
                             set_current_dir(repo_root, TRUE),
                             add_log("INFO", "Changed directory to repo root: {}",
                                     <<repo_root>>)>>,
                           Ok(Unit))
    ELSE Returns(<<ShowToplevelCmd(o), add_error(from_utf8_lossy(o.stderr))>>, Ok(Unit))

DiffCachedCmd(o) ==
    Command("git", <<Lit("diff"), Lit("--cached"), Lit("--"), Lit("."), Lit(":!*.lock")>>, o)

DiffWorktreeCmd(o) ==
    Command("git", <<Lit("diff"), Lit("--"), Lit("."), Lit(":!*.lock")>>, o)

\* the staged diff tested for emptiness before it is trimmed
diff_context_untrimmed(stdout) == from_utf8(stdout).val

\* String::from_utf8(output.stdout)?.trim().to_string(), once decoding succeeded
diff_context(stdout) == trim(from_utf8(stdout).val)

\* two empty tiers are reported as a failure
git_diff_uncommitted_no_changes_error(o1, o2) ==
    IF ~o1.spawned THEN Returns(<<DiffCachedCmd(o1)>>, Err(IoError))
    ELSE IF ~o1.success
    THEN Returns(<<DiffCachedCmd(o1), add_error(from_utf8_lossy(o1.stderr))>>,
                 Err("Failed to get diff"))
    ELSE IF ~from_utf8(o1.stdout).ok
    THEN Returns(<<DiffCachedCmd(o1)>>, Err(Utf8Error))
    ELSE IF diff_context(o1.stdout) = <<>>
    THEN IF ~o2.spawned
         THEN Returns(<<DiffCachedCmd(o1), DiffWorktreeCmd(o2)>>, Err(IoError))
         ELSE IF ~o2.success
         THEN Returns(<<DiffCachedCmd(o1), DiffWorktreeCmd(o2),
                        add_error(from_utf8_lossy(o2.stderr))>>,
                      Err("Failed to get diff"))
         ELSE IF ~from_utf8(o2.stdout).ok
         THEN Returns(<<DiffCachedCmd(o1), DiffWorktreeCmd(o2)>>, Err(Utf8Error))
         ELSE IF trim(from_utf8(o2.stdout).val) = <<>>
         THEN Returns(<<DiffCachedCmd(o1), DiffWorktreeCmd(o2)>>, Err("No changes"))
         ELSE Returns(<<DiffCachedCmd(o1), DiffWorktreeCmd(o2)>>,
                      Ok(trim(from_utf8(o2.stdout).val)))
    ELSE Returns(<<DiffCachedCmd(o1)>>, Ok(diff_context(o1.stdout)))

git_diff_uncommitted(o1, o2) ==
    IF ~o1.spawned THEN Returns(<<DiffCachedCmd(o1)>>, Err(IoError))
    ELSE IF ~o1.success
    THEN Returns(<<DiffCachedCmd(o1), add_error(from_utf8_lossy(o1.stderr))>>,
                 Err("Failed to get diff"))
    ELSE IF ~from_utf8(o1.stdout).ok
    THEN Returns(<<DiffCachedCmd(o1)>>, Err(Utf8Error))
    ELSE IF diff_context(o1.stdout) = <<>>
    THEN IF ~o2.spawned
         THEN Returns(<<DiffCachedCmd(o1), DiffWorktreeCmd(o2)>>, Err(IoError))
         ELSE IF ~o2.success
         THEN Returns(<<DiffCachedCmd(o1), DiffWorktreeCmd(o2),
                        add_error(from_utf8_lossy(o2.stderr))>>,
                      Err("Failed to get diff"))
         ELSE IF ~from_utf8(o2.stdout).ok
         THEN Returns(<<DiffCachedCmd(o1), DiffWorktreeCmd(o2)>>, Err(Utf8Error))
         ELSE Returns(<<DiffCachedCmd(o1), DiffWorktreeCmd(o2)>>,
                      Ok(trim(from_utf8(o2.stdout).val)))
    ELSE Returns(<<DiffCachedCmd(o1)>>, Ok(diff_context(o1.stdout)))

DiffBranchesCmd(main_branch, current_branch, o) ==
    Command("git",
            <<Lit("diff"), Str(main_branch \o <<".", ".", ".">> \o current_branch),
              Lit("--"), Lit(":!*.lock")>>, o)

git_diff_between_branches(main_branch, current_branch, o) ==
    IF ~o.spawned
    THEN Returns(<<DiffBranchesCmd(main_branch, current_branch, o)>>, Err(IoError))
    ELSE IF ~o.success
    THEN Returns(<<DiffBranchesCmd(main_branch, current_branch, o),
                   add_error(from_utf8_lossy(o.stderr))>>,
                 Err("Failed to get diff between branches"))
    ELSE IF ~from_utf8(o.stdout).ok
    THEN Returns(<<DiffBranchesCmd(main_branch, current_branch, o)>>, Err(Utf8Error))
    ELSE Returns(<<DiffBranchesCmd(main_branch, current_branch, o)>>,
                 Ok(trim(from_utf8(o.stdout).val)))

OriginHeadCmd(o) ==
    Command("git", <<Lit("rev-parse"), Lit("--abbrev-ref"), Lit("origin/HEAD")>>, o)

SetHeadAutoCmd(o) ==
    Command("git", <<Lit("remote"), Lit("set-head"), Lit("origin"), Lit("--auto")>>, o)

\* lines 133-138: decode, trim, strip the prefix, log, return
main_branch_finish(ev, out) ==
    IF ~from_utf8(out.stdout).ok THEN Returns(ev, Err(Utf8Error))
    ELSE LET branch == trim_start_matches(trim(from_utf8(out.stdout).val), OriginPrefix) IN
         Returns(ev \o <<add_log("INFO", "Determined main branch: {}", <<branch>>)>>,
                 Ok(branch))

\* the re-read's exit status is not looked at
main_branch_retry_unchecked(ev, o3) ==
    IF ~o3.spawned THEN Returns(ev \o <<OriginHeadCmd(o3)>>, Err(IoError))
    ELSE main_branch_finish(ev \o <<OriginHeadCmd(o3)>>, o3)

\* lines 123-130: the re-read of origin/HEAD after set-head succeeded
main_branch_retry(ev, o3) ==
    IF ~o3.spawned THEN Returns(ev \o <<OriginHeadCmd(o3)>>, Err(IoError))
    ELSE IF ~o3.success
    THEN Returns(ev \o <<OriginHeadCmd(o3), add_error(from_utf8_lossy(o3.stderr))>>,
                 Err("Failed to determine main branch"))
    ELSE main_branch_finish(ev \o <<OriginHeadCmd(o3)>>, o3)

\* a failed set-head is forwarded to the sink and the re-read goes ahead
main_branch_fallback_continue(ev, o2, o3) ==
    IF ~o2.spawned
    THEN Returns(ev \o <<add_log("INFO", "Setting origin HEAD automatically...", <<>>),
                         SetHeadAutoCmd(o2)>>,
                 Err(IoError))
    ELSE IF ~o2.success
    THEN main_branch_retry(
             ev \o <<add_log("INFO", "Setting origin HEAD automatically...", <<>>),
                     SetHeadAutoCmd(o2), add_error(from_utf8_lossy(o2.stderr))>>, o3)
    ELSE main_branch_retry(
             ev \o <<add_log("INFO", "Setting origin HEAD automatically...", <<>>),
                     SetHeadAutoCmd(o2)>>, o3)

\* lines 113-121: the auto-detect fallback
main_branch_fallback(ev, o2, o3) ==
    LET pre == ev \o <<add_log("INFO", "Setting origin HEAD automatically...", <<>>),
                       SetHeadAutoCmd(o2)>> IN
    IF ~o2.spawned THEN Returns(pre, Err(IoError))
    ELSE IF ~o2.success
    THEN Returns(pre \o <<add_error(from_utf8_lossy(o2.stderr))>>,
                 Err("Failed to set origin HEAD"))
    ELSE main_branch_retry(pre, o3)

git_main_branch(o1, o2, o3) ==
    IF ~o1.spawned THEN Returns(<<OriginHeadCmd(o1)>>, Err(IoError))
    ELSE IF ~o1.success THEN main_branch_fallback(<<OriginHeadCmd(o1)>>, o2, o3)
    ELSE main_branch_finish(<<OriginHeadCmd(o1)>>, o1)

CurrentBranchCmd(o) ==
    Command("git", <<Lit("rev-parse"), Lit("--abbrev-ref"), Lit("HEAD")>>, o)

\* a failed read returns the error without forwarding stderr to the sink
git_current_branch_silent(o) ==
    IF ~o.spawned THEN Returns(<<CurrentBranchCmd(o)>>, Err(IoError))
    ELSE IF ~o.success
    THEN Returns(<<CurrentBranchCmd(o)>>, Err("Failed to get current branch"))
    ELSE IF ~from_utf8(o.stdout).ok
    THEN Returns(<<CurrentBranchCmd(o)>>, Err(Utf8Error))
    ELSE Returns(<<CurrentBranchCmd(o),
                   add_log("INFO", "Current branch: {}", <<trim(from_utf8(o.stdout).val)>>)>>,
                 Ok(trim(from_utf8(o.stdout).val)))

git_current_branch(o) ==
    IF ~o.spawned THEN Returns(<<CurrentBranchCmd(o)>>, Err(IoError))
    ELSE IF ~o.success
    THEN Returns(<<CurrentBranchCmd(o), add_error(from_utf8_lossy(o.stderr))>>,
                 Err("Failed to get current branch"))
    ELSE IF ~from_utf8(o.stdout).ok
    THEN Returns(<<CurrentBranchCmd(o)>>, Err(Utf8Error))
    ELSE LET branch == trim(from_utf8(o.stdout).val) IN
         Returns(<<CurrentBranchCmd(o), add_log("INFO", "Current branch: {}", <<branch>>)>>,
                 Ok(branch))

PullCmd(o) == Command("git", <<Lit("pull"), Lit("origin")>>, o)

FetchCmd(main_branch, o) ==
    Command("git",
            <<Lit("fetch"), Lit("origin"), Str(main_branch \o <<":">> \o main_branch)>>, o)

\* a failed sync ends the process like a failed guard check
git_fetch_main_fatal(current_branch, main_branch, o) ==
    IF current_branch = main_branch
    THEN IF ~o.spawned THEN Returns(<<PullCmd(o)>>, Err(IoError))
         ELSE IF ~o.success
         THEN Exits(<<PullCmd(o), add_error(from_utf8_lossy(o.stderr)), exit(1)>>)
         ELSE Returns(<<PullCmd(o), add_log("INFO", "Pulled latest changes from origin", <<>>)>>,
                      Ok(Unit))
    ELSE IF ~o.spawned THEN Returns(<<FetchCmd(main_branch, o)>>, Err(IoError))
         ELSE IF ~o.success
         THEN Exits(<<FetchCmd(main_branch, o), add_error(from_utf8_lossy(o.stderr)),
                      exit(1)>>)
         ELSE Returns(<<FetchCmd(main_branch, o),
                        add_log("INFO", "Fetched latest {} branch", <<main_branch>>)>>,
                      Ok(Unit))

\* the pull is followed by the fetch instead of replacing it
git_fetch_main_both(current_branch, main_branch, o) ==
    IF ~o.spawned THEN Returns(<<FetchCmd(main_branch, o)>>, Err(IoError))
    ELSE IF ~o.success
    THEN Returns(<<FetchCmd(main_branch, o), add_error(from_utf8_lossy(o.stderr))>>,
                 Err("Failed to fetch main branch"))
    ELSE IF current_branch = main_branch
    THEN Returns(<<PullCmd(o), add_log("INFO", "Pulled latest changes from origin", <<>>),
                   FetchCmd(main_branch, o),
                   add_log("INFO", "Fetched latest {} branch", <<main_branch>>)>>,
                 Ok(Unit))
    ELSE Returns(<<FetchCmd(main_branch, o),
                   add_log("INFO", "Fetched latest {} branch", <<main_branch>>)>>,
                 Ok(Unit))

git_fetch_main(current_branch, main_branch, o) ==
    IF current_branch = main_branch
    THEN IF ~o.spawned THEN Returns(<<PullCmd(o)>>, Err(IoError))
         ELSE IF ~o.success
         THEN Returns(<<PullCmd(o), add_error(from_utf8_lossy(o.stderr))>>,
                      Err("Failed to pull from origin"))
         ELSE Returns(<<PullCmd(o), add_log("INFO", "Pulled latest changes from origin", <<>>)>>,
                      Ok(Unit))
    ELSE IF ~o.spawned THEN Returns(<<FetchCmd(main_branch, o)>>, Err(IoError))
         ELSE IF ~o.success
         THEN Returns(<<FetchCmd(main_branch, o), add_error(from_utf8_lossy(o.stderr))>>,
                      Err("Failed to fetch main branch"))
         ELSE Returns(<<FetchCmd(main_branch, o),
                        add_log("INFO", "Fetched latest {} branch", <<main_branch>>)>>,
                      Ok(Unit))

\* Option<String>
None == [some |-> FALSE, val |-> <<>>]
Some(v) == [some |-> TRUE, val |-> v]

AddCmd(o) == Command("git", <<Lit("add"), Lit(".")>>, o)

CommitCmd(message, o) == Command("git", <<Lit("commit"), Lit("-m"), Str(message)>>, o)

\* the details appended as given, not trimmed
commit_message_raw_details(commit_title, commit_details) ==
    IF commit_details.some
    THEN trim(commit_title) \o <<"\n", "\n">> \o commit_details.val
    ELSE trim(commit_title)

\* lines 198-201
commit_message(commit_title, commit_details) ==
    IF commit_details.some
    THEN trim(commit_title) \o <<"\n", "\n">> \o trim(commit_details.val)
    ELSE trim(commit_title)

\* a failed git add is forwarded to the sink but the commit goes ahead
git_stage_and_commit_add_unchecked(commit_title, commit_details, o1, o2) ==
    IF ~o1.spawned THEN Returns(<<AddCmd(o1)>>, Err(IoError))
    ELSE IF ~o2.spawned
    THEN Returns(<<AddCmd(o1), add_log("INFO", "Staged all changes", <<>>),
                   CommitCmd(commit_message(commit_title, commit_details), o2)>>,
                 Err(IoError))
    ELSE IF ~o2.success
    THEN Returns(<<AddCmd(o1), add_log("INFO", "Staged all changes", <<>>),
                   CommitCmd(commit_message(commit_title, commit_details), o2),
                   add_error(from_utf8_lossy(o2.stderr))>>,
                 Err("Failed to commit changes"))
    ELSE Returns(<<AddCmd(o1), add_log("INFO", "Staged all changes", <<>>),
                   CommitCmd(commit_message(commit_title, commit_details), o2),
                   add_log("INFO", "Committed changes successfully", <<>>)>>,
                 Ok(Unit))

\* the commit's exit status is not looked at
git_stage_and_commit_commit_unchecked(commit_title, commit_details, o1, o2) ==
    IF ~o1.spawned THEN Returns(<<AddCmd(o1)>>, Err(IoError))
    ELSE IF ~o1.success
    THEN Returns(<<AddCmd(o1), add_error(from_utf8_lossy(o1.stderr))>>,
                 Err("Failed to stage changes"))
    ELSE IF ~o2.spawned
    THEN Returns(<<AddCmd(o1), add_log("INFO", "Staged all changes", <<>>),
                   CommitCmd(commit_message(commit_title, commit_details), o2)>>,
                 Err(IoError))
    ELSE Returns(<<AddCmd(o1), add_log("INFO", "Staged all changes", <<>>),
                   CommitCmd(commit_message(commit_title, commit_details), o2),
                   add_log("INFO", "Committed changes successfully", <<>>)>>,
                 Ok(Unit))

git_stage_and_commit(commit_title, commit_details, o1, o2) ==
    IF ~o1.spawned THEN Returns(<<AddCmd(o1)>>, Err(IoError))
    ELSE IF ~o1.success
    THEN Returns(<<AddCmd(o1), add_error(from_utf8_lossy(o1.stderr))>>,
                 Err("Failed to stage changes"))
    ELSE LET pre == <<AddCmd(o1), add_log("INFO", "Staged all changes", <<>>),
                      CommitCmd(commit_message(commit_title, commit_details), o2)>> IN
         IF ~o2.spawned THEN Returns(pre, Err(IoError))
         ELSE IF ~o2.success
         THEN Returns(pre \o <<add_error(from_utf8_lossy(o2.stderr))>>,
                      Err("Failed to commit changes"))
         ELSE Returns(pre \o <<add_log("INFO", "Committed changes successfully", <<>>)>>,
                      Ok(Unit))

PushCmd(branch_name, o) ==
    Command("git", <<Lit("push"), Lit("origin"), Str(branch_name)>>, o)

\* a rejected push is tried a second time
git_push_branch_retry(branch_name, o) ==
    IF ~o.spawned THEN Returns(<<PushCmd(branch_name, o)>>, Err(IoError))
    ELSE IF ~o.success
    THEN Returns(<<PushCmd(branch_name, o), PushCmd(branch_name, o),
                   add_error(from_utf8_lossy(o.stderr))>>,
                 Err("Failed to push branch"))
    ELSE Returns(<<PushCmd(branch_name, o),
                   add_log("INFO", "Pushed branch {} to origin", <<branch_name>>)>>,
                 Ok(Unit))

\* a rejected push undoes the commit it could not publish
git_push_branch_rollback(branch_name, o) ==
    IF ~o.spawned THEN Returns(<<PushCmd(branch_name, o)>>, Err(IoError))
    ELSE IF ~o.success
    THEN Returns(<<PushCmd(branch_name, o), add_error(from_utf8_lossy(o.stderr)),
                   Command("git", <<Lit("reset"), Lit("--soft"), Lit("HEAD~1")>>,
                           Succeeded(<<>>))>>,
                 Err("Failed to push branch"))
    ELSE Returns(<<PushCmd(branch_name, o),
                   add_log("INFO", "Pushed branch {} to origin", <<branch_name>>)>>,
                 Ok(Unit))

git_push_branch(branch_name, o) ==
    IF ~o.spawned THEN Returns(<<PushCmd(branch_name, o)>>, Err(IoError))
    ELSE IF ~o.success
    THEN Returns(<<PushCmd(branch_name, o), add_error(from_utf8_lossy(o.stderr))>>,
                 Err("Failed to push branch"))
    ELSE Returns(<<PushCmd(branch_name, o),
                   add_log("INFO", "Pushed branch {} to origin", <<branch_name>>)>>,
                 Ok(Unit))

PrCreateCmd(title, body, o) ==
    Command("gh", <<Lit("pr"), Lit("create"), Lit("--title"), Str(title),
                    Lit("--body"), Str(body)>>, o)

\* the SUCCESS entry is written before the exit status is looked at
create_pull_request_logs_first(title, body, o) ==
    IF ~o.spawned THEN Returns(<<PrCreateCmd(title, body, o)>>, Err(IoError))
    ELSE IF ~o.success
    THEN Returns(<<PrCreateCmd(title, body, o),
                   add_log("SUCCESS", "Pull request created successfully", <<>>),
                   add_error(from_utf8_lossy(o.stderr))>>,
                 Err("Failed to create pull request"))
    ELSE Returns(<<PrCreateCmd(title, body, o),
                   add_log("SUCCESS", "Pull request created successfully", <<>>)>>,
                 Ok(Unit))

create_pull_request(title, body, o) ==
    IF ~o.spawned THEN Returns(<<PrCreateCmd(title, body, o)>>, Err(IoError))
    ELSE IF ~o.success
    THEN Returns(<<PrCreateCmd(title, body, o), add_error(from_utf8_lossy(o.stderr))>>,
                 Err("Failed to create pull request"))
    ELSE Returns(<<PrCreateCmd(title, body, o),
                   add_log("SUCCESS", "Pull request created successfully", <<>>)>>,
                 Ok(Unit))

\* ------------------------------------------------------------ environment
Stderrs == {<<"e">>, <<"e", Invalid>>}
StatusOutcomes == {SpawnFailed, Succeeded(<<>>)} \cup {Failed(e) : e \in Stderrs}
TextOutcomes(S) ==
    {SpawnFailed} \cup {Failed(e) : e \in Stderrs} \cup {Succeeded(t) : t \in S}

Pads == SeqsUpTo(Whitespace, MaxPad)
Padded(C) == {l \o c \o r : l \in Pads, c \in C, r \in Pads}

RECURSIVE Prefixed(_, _)
Prefixed(name, k) == IF k = 0 THEN name ELSE OriginPrefix \o Prefixed(name, k - 1)

BranchNames == {HEAD, <<"m">>, <<"f">>}
CurrentBranchStdouts == Padded(BranchNames) \cup {<<Invalid>>, HEAD \o <<Invalid>>}
OriginHeadStdouts ==
    Padded({Prefixed(n, k) : n \in {<<"m">>, <<>>}, k \in 0..MaxPrefix}) \cup {<<Invalid>>}
DiffStdouts == Padded({<<>>, <<"d">>, <<"d", " ", "d">>}) \cup {<<Invalid>>}
RepoRoot == <<"/", "r">>
StartDir == <<"/", "r", "/", "s">>
RootStdouts == Padded({RepoRoot}) \cup {<<Invalid>>}
Texts == SeqsUpTo({" ", "\n", "a"}, MaxLen)
OptTexts == {None} \cup {Some(t) : t \in Texts}
PrTitles == {<<"t">>}
PrBodies == {<<>>, <<"b">>}

\* ------------------------------------------------------------------ state
NoCall == [op |-> "none", args |-> <<>>, ev |-> <<>>, how |-> "return", ret |-> Ok(Unit)]
NoCtx == [current_branch |-> <<>>, main_branch |-> <<>>, diff |-> <<>>, failed |-> "none"]
InitialSinks == {<<>>, <<add_log("INFO", "started", <<>>)>>}

Init ==
    /\ trace = <<>>
    /\ sink \in InitialSinks
    /\ cwd = StartDir
    /\ terminated = FALSE
    /\ call = NoCall
    /\ stage = "Start"
    /\ ctx = NoCtx

IsSinkEntry(e) == e.type \in {"add_log", "add_error"}
IsChdir(e) == e.type = "chdir" /\ e.ok
IsCmd(e) == e.type = "cmd"
IsRender(e) == e.type = "render"

LastDir(ev, dir) ==
    LET moves == SelectSeq(ev, IsChdir) IN
    IF moves = <<>> THEN dir ELSE moves[Len(moves)].path

\* The process runs operation op with args to its end: eff is what it did.
Apply(op, args, eff) ==
    /\ ~terminated
    /\ trace' = trace \o eff.ev
    /\ sink' = sink \o SelectSeq(eff.ev, IsSinkEntry)
    /\ cwd' = LastDir(eff.ev, cwd)
    /\ terminated' = (eff.how = "exit")
    /\ call' = [op |-> op, args |-> args, ev |-> eff.ev, how |-> eff.how, ret |-> eff.ret]

\* ----------------------------------------- each operation called on its own
Idle == call = NoCall /\ stage = "Start"

CallEnsureInRepo ==
    /\ Idle
    /\ \E o \in StatusOutcomes : Apply("git_ensure_in_repo", <<>>, git_ensure_in_repo(o))
    /\ UNCHANGED <<stage, ctx>>

CallEnsureNotDetachedHead ==
    /\ Idle
    /\ \E b \in Padded(BranchNames), render_ok \in BOOLEAN :
          Apply("git_ensure_not_detached_head", <<b>>,
                git_ensure_not_detached_head(b, render_ok))
    /\ UNCHANGED <<stage, ctx>>

CallCdToRepoRoot ==
    /\ Idle
    /\ \E o \in TextOutcomes(RootStdouts), chdir_ok \in BOOLEAN :
          Apply("git_cd_to_repo_root", <<>>, git_cd_to_repo_root(o, chdir_ok))
    /\ UNCHANGED <<stage, ctx>>

CallDiffUncommitted ==
    /\ Idle
    /\ \E o1 \in TextOutcomes(DiffStdouts), o2 \in TextOutcomes(DiffStdouts) :
          Apply("git_diff_uncommitted", <<>>, git_diff_uncommitted(o1, o2))
    /\ UNCHANGED <<stage, ctx>>

CallDiffBetweenBranches ==
    /\ Idle
    /\ \E m \in BranchNames, c \in BranchNames, o \in TextOutcomes(DiffStdouts) :
          Apply("git_diff_between_branches", <<m, c>>, git_diff_between_branches(m, c, o))
    /\ UNCHANGED <<stage, ctx>>

CallMainBranch ==
    /\ Idle
    /\ \E o1 \in TextOutcomes(OriginHeadStdouts), o2 \in StatusOutcomes,
          o3 \in TextOutcomes(OriginHeadStdouts) :
          Apply("git_main_branch", <<>>, git_main_branch(o1, o2, o3))
    /\ UNCHANGED <<stage, ctx>>

CallCurrentBranch ==
    /\ Idle
    /\ \E o \in TextOutcomes(CurrentBranchStdouts) :
          Apply("git_current_branch", <<>>, git_current_branch(o))
    /\ UNCHANGED <<stage, ctx>>

CallFetchMain ==
    /\ Idle
    /\ \E c \in BranchNames, m \in BranchNames, o \in StatusOutcomes :
          Apply("git_fetch_main", <<c, m>>, git_fetch_main(c, m, o))
    /\ UNCHANGED <<stage, ctx>>

CallStageAndCommit ==
    /\ Idle
    /\ \E t \in Texts, d \in OptTexts, o1 \in StatusOutcomes, o2 \in StatusOutcomes :
          Apply("git_stage_and_commit", <<t, d>>, git_stage_and_commit(t, d, o1, o2))
    /\ UNCHANGED <<stage, ctx>>

CallPushBranch ==
    /\ Idle
    /\ \E b \in BranchNames, o \in StatusOutcomes :
          Apply("git_push_branch", <<b>>, git_push_branch(b, o))
    /\ UNCHANGED <<stage, ctx>>

CallCreatePullRequest ==
    /\ Idle
    /\ \E t \in PrTitles, b \in PrBodies, o \in StatusOutcomes :
          Apply("create_pull_request", <<t, b>>, create_pull_request(t, b, o))
    /\ UNCHANGED <<stage, ctx>>

Next ==
    \/ CallEnsureInRepo
    \/ CallEnsureNotDetachedHead
    \/ CallCdToRepoRoot
    \/ CallDiffUncommitted
    \/ CallDiffBetweenBranches
    \/ CallMainBranch
    \/ CallCurrentBranch
    \/ CallFetchMain
    \/ CallStageAndCommit
    \/ CallPushBranch
    \/ CallCreatePullRequest

Spec == Init /\ [][Next]_vars

\* ------------------------------------------------------------ the pipeline
\* One run: RepoGuard, BranchResolver, SyncCoordinator, DiffEngine,
\* ChangeSubmitter, PullRequestPublisher, each stage gated by the one before.
PipeBranchStdouts == {b \o <<"\n">> : b \in BranchNames}
PipeOriginStdouts == {OriginPrefix \o b \o <<"\n">> : b \in {<<"m">>, <<"f">>}}
PipeDiffStdouts == {<<>>, <<"d", "\n">>}
PipeRootStdouts == {RepoRoot \o <<"\n">>}
PipeTexts == {<<"a">>}
PipeOptTexts == {None, Some(<<"a">>)}

\* where the pipeline stands after a stage that did eff
After(eff, next) ==
    IF eff.how = "exit" THEN "Fatal" ELSE IF eff.ret.ok THEN next ELSE "Failed"

Outcome(eff, op) == IF eff.how = "return" /\ ~eff.ret.ok THEN op ELSE "none"

Stage(from, to, op, args, eff) ==
    /\ stage = from
    /\ Apply(op, args, eff)
    /\ stage' = After(eff, to)

StageEnsureInRepo ==
    \E o \in StatusOutcomes :
        LET eff == git_ensure_in_repo(o) IN
        /\ Stage("Start", "InRepo", "git_ensure_in_repo", <<>>, eff)
        /\ ctx' = [ctx EXCEPT !.failed = Outcome(eff, "git_ensure_in_repo")]

StageCurrentBranch ==
    \E o \in TextOutcomes(PipeBranchStdouts) :
        LET eff == git_current_branch(o) IN
        /\ Stage("InRepo", "Branched", "git_current_branch", <<>>, eff)
        /\ ctx' = [ctx EXCEPT !.failed = Outcome(eff, "git_current_branch"),
                              !.current_branch = IF eff.ret.ok THEN eff.ret.val ELSE @]

StageEnsureNotDetachedHead ==
    \E render_ok \in BOOLEAN :
        LET eff == git_ensure_not_detached_head(ctx.current_branch, render_ok) IN
        /\ Stage("Branched", "Attached", "git_ensure_not_detached_head",
                 <<ctx.current_branch>>, eff)
        /\ ctx' = [ctx EXCEPT !.failed = Outcome(eff, "git_ensure_not_detached_head")]

StageCdToRepoRoot ==
    \E o \in TextOutcomes(PipeRootStdouts), chdir_ok \in BOOLEAN :
        LET eff == git_cd_to_repo_root(o, chdir_ok) IN
        /\ Stage("Attached", "Guarded", "git_cd_to_repo_root", <<>>, eff)
        /\ ctx' = [ctx EXCEPT !.failed = Outcome(eff, "git_cd_to_repo_root")]

StageMainBranch ==
    \E o1 \in TextOutcomes(PipeOriginStdouts), o2 \in StatusOutcomes,
       o3 \in TextOutcomes(PipeOriginStdouts) :
        LET eff == git_main_branch(o1, o2, o3) IN
        /\ Stage("Guarded", "Resolved", "git_main_branch", <<>>, eff)
        /\ ctx' = [ctx EXCEPT !.failed = Outcome(eff, "git_main_branch"),
                              !.main_branch = IF eff.ret.ok THEN eff.ret.val ELSE @]

StageFetchMain ==
    \E o \in StatusOutcomes :
        LET eff == git_fetch_main(ctx.current_branch, ctx.main_branch, o) IN
        /\ Stage("Resolved", "Synced", "git_fetch_main",
                 <<ctx.current_branch, ctx.main_branch>>, eff)
        /\ ctx' = [ctx EXCEPT !.failed = Outcome(eff, "git_fetch_main")]

StageDiffUncommitted ==
    \E o1 \in TextOutcomes(PipeDiffStdouts), o2 \in TextOutcomes(PipeDiffStdouts) :
        LET eff == git_diff_uncommitted(o1, o2) IN
        /\ Stage("Synced", "Diffed", "git_diff_uncommitted", <<>>, eff)
        /\ ctx' = [ctx EXCEPT !.failed = Outcome(eff, "git_diff_uncommitted"),
                              !.diff = IF eff.ret.ok THEN eff.ret.val ELSE @]

StageDiffBetweenBranches ==
    \E o \in TextOutcomes(PipeDiffStdouts) :
        LET eff == git_diff_between_branches(ctx.main_branch, ctx.current_branch, o) IN
        /\ Stage("Synced", "Diffed", "git_diff_between_branches",
                 <<ctx.main_branch, ctx.current_branch>>, eff)
        /\ ctx' = [ctx EXCEPT !.failed = Outcome(eff, "git_diff_between_branches"),
                              !.diff = IF eff.ret.ok THEN eff.ret.val ELSE @]

StageStageAndCommit ==
    \E t \in PipeTexts, d \in PipeOptTexts, o1 \in StatusOutcomes, o2 \in StatusOutcomes :
        LET eff == git_stage_and_commit(t, d, o1, o2) IN
        /\ Stage("Diffed", "Committed", "git_stage_and_commit", <<t, d>>, eff)
        /\ ctx' = [ctx EXCEPT !.failed = Outcome(eff, "git_stage_and_commit")]

StagePushBranch ==
    \E o \in StatusOutcomes :
        LET eff == git_push_branch(ctx.current_branch, o) IN
        /\ Stage("Committed", "Pushed", "git_push_branch", <<ctx.current_branch>>, eff)
        /\ ctx' = [ctx EXCEPT !.failed = Outcome(eff, "git_push_branch")]

StageCreatePullRequest ==
    \E t \in PrTitles, b \in PrBodies, o \in StatusOutcomes :
        LET eff == create_pull_request(t, b, o) IN
        /\ Stage("Pushed", "Published", "create_pull_request", <<t, b>>, eff)
        /\ ctx' = [ctx EXCEPT !.failed = Outcome(eff, "create_pull_request")]

PipelineNext ==
    \/ StageEnsureInRepo
    \/ StageCurrentBranch
    \/ StageEnsureNotDetachedHead
    \/ StageCdToRepoRoot
    \/ StageMainBranch
    \/ StageFetchMain
    \/ StageDiffUncommitted
    \/ StageDiffBetweenBranches
    \/ StageStageAndCommit
    \/ StagePushBranch
    \/ StageCreatePullRequest

PipelineSpec == Init /\ [][PipelineNext]_vars

\* ================================================================= claims
\* What the claims speak of, stated without the model's own operators.
HasText(s) == \E i \in 1..Len(s) : s[i] \notin Whitespace
Decodes(b) == \A i \in 1..Len(b) : b[i] # Invalid
IsTrimOf(t, s) ==
    \E i \in 1..(Len(s) + 1) : \E j \in (i - 1)..Len(s) :
        /\ t = SubSeq(s, i, j)
        /\ \A k \in 1..(i - 1) : s[k] \in Whitespace
        /\ \A k \in (j + 1)..Len(s) : s[k] \in Whitespace
        /\ t # <<>> => t[1] \notin Whitespace /\ t[Len(t)] \notin Whitespace
Trimmed(s) ==
    CHOOSE t \in {SubSeq(s, i, j) : i \in 1..(Len(s) + 1), j \in 0..Len(s)} : IsTrimOf(t, s)
IsLossyOf(t, b) ==
    /\ Len(t) = Len(b)
    /\ \A i \in 1..Len(b) : IF b[i] = Invalid THEN t[i] = Replacement ELSE t[i] = b[i]

CallCmds == SelectSeq(call.ev, IsCmd)
NonZero(c) == c.out.spawned /\ ~c.out.success
ExitedZero(c) == c.out.spawned /\ c.out.success
LockExclusion == Lit(":!*.lock")

\* C1: git_ensure_not_detached_head terminates the process for the branch
\* name "HEAD" and never returns; for every other name it returns success
\* with no sink entry, no render and no exit.
C1_DetachedHeadAlwaysTerminates ==
    call.op = "git_ensure_not_detached_head" =>
        IF call.args[1] = HEAD
        THEN call.how = "exit" /\ terminated
        ELSE call.how = "return" /\ call.ret = Ok(Unit) /\ call.ev = <<>> /\ ~terminated

\* C3: git_diff_uncommitted returns the trimmed staged diff whenever it is
\* non-empty after trimming, without running the working-tree diff; it
\* returns the trimmed working-tree diff only when the staged diff is empty
\* after trimming; both commands carry the lock-file exclusion.
C3_DiffUncommittedTiers ==
    call.op = "git_diff_uncommitted" =>
        /\ Len(CallCmds) \in {1, 2}
        /\ CallCmds[1].prog = "git"
        /\ CallCmds[1].args = <<Lit("diff"), Lit("--cached"), Lit("--"), Lit("."), LockExclusion>>
        /\ Len(CallCmds) = 2 =>
              /\ CallCmds[2].prog = "git"
              /\ CallCmds[2].args = <<Lit("diff"), Lit("--"), Lit("."), LockExclusion>>
              /\ ExitedZero(CallCmds[1])
              /\ Decodes(CallCmds[1].out.stdout)
              /\ ~HasText(CallCmds[1].out.stdout)
        /\ (/\ ExitedZero(CallCmds[1])
            /\ Decodes(CallCmds[1].out.stdout)
            /\ HasText(CallCmds[1].out.stdout)) =>
              /\ Len(CallCmds) = 1
              /\ call.how = "return" /\ call.ret.ok
              /\ IsTrimOf(call.ret.val, CallCmds[1].out.stdout)
        /\ (call.how = "return" /\ call.ret.ok /\ Len(CallCmds) = 2) =>
              IsTrimOf(call.ret.val, CallCmds[2].out.stdout)
        /\ (call.how = "return" /\ call.ret.ok /\ Len(CallCmds) = 1) =>
              HasText(CallCmds[1].out.stdout)

\* a padded, non-empty staged diff came back trimmed from the one command run
C3_Witness ==
    /\ call.op = "git_diff_uncommitted"
    /\ call.ret.ok
    /\ Len(CallCmds) = 1
    /\ call.ret.val # <<>>
    /\ call.ret.val # CallCmds[1].out.stdout

\* C4: git_main_branch strips exactly one leading "origin/" from the trimmed
\* output of the origin/HEAD read: for "origin/" + rest it returns rest.
C4_StripsExactlyOnePrefix ==
    (call.op = "git_main_branch" /\ call.how = "return" /\ call.ret.ok) =>
        LET read == CallCmds[Len(CallCmds)].out.stdout IN
        starts_with(Trimmed(read), OriginPrefix) =>
            OriginPrefix \o call.ret.val = Trimmed(read)

\* C5: one call of git_main_branch issues the auto-detect fallback at most
\* once and only after the first origin/HEAD read failed, re-reads at most
\* once, and returns an error if the re-read fails too.
IsOriginRead(c) == c.args = <<Lit("rev-parse"), Lit("--abbrev-ref"), Lit("origin/HEAD")>>
IsSetHead(c) == c.args = <<Lit("remote"), Lit("set-head"), Lit("origin"), Lit("--auto")>>
C5_FallbackAtMostOnce ==
    call.op = "git_main_branch" =>
        LET sets == {i \in 1..Len(CallCmds) : IsSetHead(CallCmds[i])}
            reads == {i \in 1..Len(CallCmds) : IsOriginRead(CallCmds[i])}
        IN  /\ Cardinality(sets) <= 1
            /\ Cardinality(reads) <= 2
            /\ 1 \in reads
            /\ \A i \in sets : i = 2 /\ NonZero(CallCmds[1])
            /\ \A i \in reads : i # 1 => (i = 3 /\ 2 \in sets /\ ExitedZero(CallCmds[2]))
            /\ (3 \in reads /\ ~ExitedZero(CallCmds[3])) =>
                  call.how = "return" /\ ~call.ret.ok

\* the fallback ran, the re-read failed with a non-zero status, an error came back
C5_Witness ==
    /\ call.op = "git_main_branch"
    /\ Len(CallCmds) = 3
    /\ NonZero(CallCmds[3])
    /\ ~call.ret.ok

\* C6: the message given to git commit -m is trim(title) when details is
\* absent and trim(title) + "\n\n" + trim(details) when it is present.
C6_CommitMessage ==
    call.op = "git_stage_and_commit" =>
        LET title == call.args[1]
            details == call.args[2]
            expected == IF details.some
                        THEN Trimmed(title) \o <<"\n", "\n">> \o Trimmed(details.val)
                        ELSE Trimmed(title)
        IN  /\ ExitedZero(CallCmds[1]) => Len(CallCmds) = 2
            /\ Len(CallCmds) = 2 =>
                  /\ CallCmds[2].prog = "git"
                  /\ CallCmds[2].args = <<Lit("commit"), Lit("-m"), Str(expected)>>

\* a commit was issued for a padded title and padded details
C6_Witness ==
    /\ call.op = "git_stage_and_commit"
    /\ Len(CallCmds) = 2
    /\ call.args[2].some
    /\ HasText(call.args[1]) /\ Trimmed(call.args[1]) # call.args[1]
    /\ HasText(call.args[2].val) /\ Trimmed(call.args[2].val) # call.args[2].val

\* C7: git_fetch_main issues exactly one sync command: git pull origin when
\* current equals main, git fetch origin <main>:<main> otherwise; never both,
\* never a checkout.
C7_OneSyncCommand ==
    call.op = "git_fetch_main" =>
        LET current == call.args[1]
            main == call.args[2]
        IN  /\ Len(CallCmds) = 1
            /\ CallCmds[1].prog = "git"
            /\ CallCmds[1].args =
                  IF current = main
                  THEN <<Lit("pull"), Lit("origin")>>
                  ELSE <<Lit("fetch"), Lit("origin"), Str(main \o <<":">> \o main)>>

\* on another branch than main, the one command was the fetch, and it succeeded
C7_Witness ==
    /\ call.op = "git_fetch_main"
    /\ call.args[1] # call.args[2]
    /\ call.ret.ok
    /\ CallCmds[1].args[1] = Lit("fetch")

\* C8: when the repository-presence check fails, an ERROR entry is appended
\* to the sink and the process terminates at once: the call does not return
\* and no later stage or command runs.
IsPresenceCheck(e) ==
    IsCmd(e) /\ e.args = <<Lit("rev-parse"), Lit("--is-inside-work-tree")>>
C8_NotInRepoTerminates ==
    \A i \in 1..Len(trace) :
        (IsPresenceCheck(trace[i]) /\ NonZero(trace[i])) =>
            /\ Len(trace) = i + 2
            /\ trace[i + 1].type = "add_log" /\ trace[i + 1].level = "ERROR"
            /\ sink # <<>> /\ sink[Len(sink)] = trace[i + 1]
            /\ trace[i + 2].type = "exit"
            /\ terminated
            /\ call.op = "git_ensure_in_repo" /\ call.how = "exit"

\* the check failed and the process is gone
C8_Witness ==
    /\ call.op = "git_ensure_in_repo"
    /\ NonZero(CallCmds[1])
    /\ terminated

\* C9: when show-toplevel exits non-zero, git_cd_to_repo_root appends the
\* error to the sink, leaves the working directory alone and returns success.
C9_CdFailureSwallowed ==
    (call.op = "git_cd_to_repo_root" /\ NonZero(CallCmds[1])) =>
        /\ call.how = "return" /\ call.ret = Ok(Unit)
        /\ ~terminated
        /\ Len(call.ev) = 2
        /\ call.ev[2].type = "add_error"
        /\ IsLossyOf(call.ev[2].msg, CallCmds[1].out.stderr)
        /\ sink # <<>> /\ sink[Len(sink)] = call.ev[2]
        /\ cwd = StartDir

\* show-toplevel failed and the call came back with success
C9_Witness ==
    /\ call.op = "git_cd_to_repo_root"
    /\ NonZero(CallCmds[1])
    /\ call.ret.ok

\* C10: in every operation after the guard stage, whenever an invocation
\* exits non-zero or its output fails to decode, an add_error entry is
\* appended to the sink and the operation returns an error.
PostGuardOps ==
    {"git_diff_uncommitted", "git_diff_between_branches", "git_main_branch",
     "git_current_branch", "git_fetch_main", "git_stage_and_commit",
     "git_push_branch", "create_pull_request"}
HasAddError(ev) == \E k \in 1..Len(ev) : ev[k].type = "add_error"
C10_EveryFailureForwarded ==
    call.op \in PostGuardOps =>
        \A i \in 1..Len(CallCmds) :
            (NonZero(CallCmds[i]) \/
             (ExitedZero(CallCmds[i]) /\ ~Decodes(CallCmds[i].out.stdout))) =>
                HasAddError(call.ev) /\ call.how = "return" /\ ~call.ret.ok

\* C10 as amended: a non-zero status, other than that of the first
\* origin/HEAD read of git_main_branch, is forwarded to the sink by add_error
\* and the operation returns an error; a non-zero first origin/HEAD read is
\* followed by the INFO entry and the auto-detect command; an output that
\* fails to decode makes the operation return an error with nothing appended.
C10_FailuresForwardedOrReturned ==
    call.op \in PostGuardOps =>
        \A i \in 1..Len(call.ev) :
            IsCmd(call.ev[i]) =>
                LET c == call.ev[i]
                    first_read == call.op = "git_main_branch" /\ i = 1
                IN  /\ (NonZero(c) /\ ~first_read) =>
                          /\ Len(call.ev) = i + 1
                          /\ call.ev[i + 1].type = "add_error"
                          /\ IsLossyOf(call.ev[i + 1].msg, c.out.stderr)
                          /\ sink # <<>> /\ sink[Len(sink)] = call.ev[i + 1]
                          /\ call.how = "return" /\ ~call.ret.ok
                    /\ (NonZero(c) /\ first_read) =>
                          /\ Len(call.ev) >= i + 2
                          /\ call.ev[i + 1].type = "add_log" /\ call.ev[i + 1].level = "INFO"
                          /\ IsCmd(call.ev[i + 2]) /\ IsSetHead(call.ev[i + 2])
                    /\ (ExitedZero(c) /\ ~Decodes(c.out.stdout)) =>
                          /\ Len(call.ev) = i
                          /\ ~HasAddError(call.ev)
                          /\ call.how = "return" /\ ~call.ret.ok

\* a current-branch read exited non-zero and its stderr reached the sink
C10_Witness ==
    /\ call.op = "git_current_branch"
    /\ NonZero(CallCmds[1])
    /\ HasAddError(call.ev)
    /\ ~call.ret.ok

\* C2: past the RepoGuard stage current_branch is never "HEAD": no run in
\* which git_current_branch yielded "HEAD" reaches sync, diff, commit, push
\* or publish.
PastGuard ==
    {"Attached", "Guarded", "Resolved", "Synced", "Diffed", "Committed", "Pushed",
     "Published"}
LaterStageWords ==
    {Lit("pull"), Lit("fetch"), Lit("diff"), Lit("add"), Lit("commit"), Lit("push"),
     Lit("pr"), Lit("remote")}
IsLaterStageCmd(e) == IsCmd(e) /\ e.args[1] \in LaterStageWords
IsCurrentBranchRead(e) ==
    IsCmd(e) /\ e.args = <<Lit("rev-parse"), Lit("--abbrev-ref"), Lit("HEAD")>>
YieldedHead(e) ==
    /\ IsCurrentBranchRead(e)
    /\ ExitedZero(e)
    /\ Decodes(e.out.stdout)
    /\ Trimmed(e.out.stdout) = HEAD
C2_NeverDetachedPastGuard ==
    /\ stage \in PastGuard => ctx.current_branch # HEAD
    /\ (\E i \in 1..Len(trace) : YieldedHead(trace[i])) =>
          /\ stage \notin PastGuard
          /\ \A j \in 1..Len(trace) : ~IsLaterStageCmd(trace[j])

\* a run whose current branch read "HEAD" was stopped by the guard
C2_Witness ==
    /\ ctx.current_branch = HEAD
    /\ call.op = "git_ensure_not_detached_head"
    /\ terminated


\* C11: the pipeline is linear and gated: after a stage returned an error no
\* later command is issued; git push is issued only after a commit that
\* succeeded, gh pr create only after a push that succeeded.
IsShowToplevel(e) == e.args = <<Lit("rev-parse"), Lit("--show-toplevel")>>
Word(e, w) == IsCmd(e) /\ e.args[1] = Lit(w)
StageRank(e) ==
    IF IsPresenceCheck(e) THEN 1
    ELSE IF IsCurrentBranchRead(e) THEN 2
    ELSE IF IsShowToplevel(e) THEN 3
    ELSE IF IsOriginRead(e) \/ IsSetHead(e) THEN 4
    ELSE IF Word(e, "pull") \/ Word(e, "fetch") THEN 5
    ELSE IF Word(e, "diff") THEN 6
    ELSE IF Word(e, "add") \/ Word(e, "commit") THEN 7
    ELSE IF Word(e, "push") THEN 8
    ELSE 9
FirstOriginRead(i) ==
    /\ IsCmd(trace[i]) /\ IsOriginRead(trace[i])
    /\ \A k \in 1..(i - 1) : ~(IsCmd(trace[k]) /\ IsOriginRead(trace[k]))
\* the events after which the running stage hands back an error or exits
StageError(i) ==
    LET e == trace[i] IN
    \/ e.type \in {"render", "chdir"} /\ ~e.ok
    \/ /\ IsCmd(e)
       /\ \/ ~e.out.spawned
          \/ NonZero(e) /\ ~IsShowToplevel(e) /\ ~FirstOriginRead(i)
          \/ ExitedZero(e) /\ ~Decodes(e.out.stdout)
Once(w) == Cardinality({i \in 1..Len(trace) : Word(trace[i], w)}) <= 1
C11_LinearAndGated ==
    /\ \A i \in 1..Len(trace) :
          StageError(i) =>
              /\ stage \in {"Failed", "Fatal"}
              /\ \A j \in (i + 1)..Len(trace) :
                    trace[j].type \notin {"cmd", "render", "chdir"}
    /\ \A j \in 1..Len(trace) :
          /\ Word(trace[j], "push") =>
                \E i \in 1..(j - 1) : Word(trace[i], "commit") /\ ExitedZero(trace[i])
          /\ Word(trace[j], "pr") =>
                \E i \in 1..(j - 1) : Word(trace[i], "push") /\ ExitedZero(trace[i])
    /\ \A i \in 1..Len(trace) : \A j \in i..Len(trace) :
          (IsCmd(trace[i]) /\ IsCmd(trace[j])) => StageRank(trace[i]) <= StageRank(trace[j])
    /\ \A w \in {"pull", "fetch", "add", "commit", "push", "pr"} : Once(w)
    /\ ~(\E i \in 1..Len(trace) : Word(trace[i], "pull"))
          \/ ~(\E i \in 1..Len(trace) : Word(trace[i], "fetch"))

\* a commit exited non-zero and the run stopped there, push never issued
C11_Witness ==
    /\ stage = "Failed"
    /\ call.op = "git_stage_and_commit"
    /\ Len(CallCmds) = 2
    /\ NonZero(CallCmds[2])
    /\ trace[Len(trace)].type = "add_error"


\* C12: when git_push_branch fails after git_stage_and_commit succeeded, the
\* outcome is a recoverable failure at the push stage; the commit is left as
\* it is (no command follows the push) and the process is not terminated.
TraceCmds == SelectSeq(trace, IsCmd)
PushFailedAfterCommit ==
    /\ call.op = "git_push_branch"
    /\ ~ExitedZero(CallCmds[1])
    /\ \E i \in 1..Len(TraceCmds) : Word(TraceCmds[i], "commit") /\ ExitedZero(TraceCmds[i])
C12_PushFailureLeavesCommit ==
    PushFailedAfterCommit =>
        /\ call.how = "return" /\ ~call.ret.ok
        /\ ~terminated
        /\ stage = "Failed" /\ ctx.failed = "git_push_branch"
        /\ Len(CallCmds) = 1
        /\ Word(TraceCmds[Len(TraceCmds)], "push")
        /\ Word(TraceCmds[Len(TraceCmds) - 1], "commit")
        /\ ExitedZero(TraceCmds[Len(TraceCmds) - 1])
        /\ \A i \in 1..Len(call.ev) : call.ev[i].type \in {"cmd", "add_error"}

\* the push was rejected with a non-zero status after the commit went through
C12_Witness ==
    /\ PushFailedAfterCommit
    /\ NonZero(CallCmds[1])
    /\ stage = "Failed"


\* C13: git_diff_uncommitted returns an error only when a diff command it
\* issued failed, never on "no changes": whenever every issued diff command
\* exits 0 the call returns success, and two empty tiers give an empty result.
AllExitedZero == \A i \in 1..Len(CallCmds) : ExitedZero(CallCmds[i])
AllDecode == \A i \in 1..Len(CallCmds) : Decodes(CallCmds[i].out.stdout)
BothTiersEmpty ==
    /\ Len(CallCmds) = 2
    /\ AllExitedZero /\ AllDecode
    /\ ~HasText(CallCmds[1].out.stdout) /\ ~HasText(CallCmds[2].out.stdout)
C13_ErrorOnlyOnCommandFailure ==
    call.op = "git_diff_uncommitted" =>
        /\ AllExitedZero => (call.how = "return" /\ call.ret.ok)
        /\ BothTiersEmpty => call.ret = Ok(<<>>)

\* C13 as amended: whenever every issued diff command exits 0 and its output
\* decodes as UTF-8 the call returns success; it returns an error exactly
\* when a command it issued could not be run, exited non-zero or printed
\* bytes that are not UTF-8; two empty tiers give an empty result.
C13_ErrorOnlyOnFailureOrUndecodable ==
    call.op = "git_diff_uncommitted" =>
        /\ call.how = "return"
        /\ call.ret.ok <=> (AllExitedZero /\ AllDecode)
        /\ BothTiersEmpty => call.ret = Ok(<<>>)

\* both tiers exited 0 with nothing but whitespace and the result is empty
C13_Witness ==
    /\ call.op = "git_diff_uncommitted"
    /\ BothTiersEmpty
    /\ CallCmds[1].out.stdout # <<>>
    /\ call.ret = Ok(<<>>)


\* C14: git_stage_and_commit issues git add . before git commit and issues
\* the commit only if the add exited 0: a failed add returns an error with no
\* commit invoked, and a commit that exits non-zero returns an error.
C14_AddGatesCommit ==
    call.op = "git_stage_and_commit" =>
        /\ Len(CallCmds) \in {1, 2}
        /\ CallCmds[1].prog = "git" /\ CallCmds[1].args = <<Lit("add"), Lit(".")>>
        /\ \A i \in 1..Len(CallCmds) : Word(CallCmds[i], "commit") => i = 2
        /\ Len(CallCmds) = 2 <=> ExitedZero(CallCmds[1])
        /\ Len(CallCmds) = 2 => Word(CallCmds[2], "commit")
        /\ ~ExitedZero(CallCmds[1]) => (call.how = "return" /\ ~call.ret.ok)
        /\ (Len(CallCmds) = 2 /\ ~ExitedZero(CallCmds[2])) =>
              (call.how = "return" /\ ~call.ret.ok)

\* staging exited non-zero: an error came back and commit was never invoked
C14_Witness ==
    /\ call.op = "git_stage_and_commit"
    /\ NonZero(CallCmds[1])
    /\ Len(CallCmds) = 1
    /\ ~call.ret.ok

\* C15: create_pull_request appends a SUCCESS entry and returns success if
\* and only if the gh invocation exited 0; when it fails an error is returned
\* and no SUCCESS entry is appended.
IsSuccessEntry(e) == e.type = "add_log" /\ e.level = "SUCCESS"
C15_SuccessIffExitZero ==
    call.op = "create_pull_request" =>
        /\ Len(CallCmds) = 1 /\ CallCmds[1].prog = "gh"
        /\ call.how = "return"
        /\ call.ret.ok <=> ExitedZero(CallCmds[1])
        /\ (\E i \in 1..Len(sink) : IsSuccessEntry(sink[i])) <=> ExitedZero(CallCmds[1])
        /\ ExitedZero(CallCmds[1]) =>
              /\ IsSuccessEntry(sink[Len(sink)])
              /\ Cardinality({i \in 1..Len(sink) : IsSuccessEntry(sink[i])}) = 1

\* gh exited non-zero: an error came back, stderr is in the sink, no SUCCESS
C15_Witness ==
    /\ call.op = "create_pull_request"
    /\ NonZero(CallCmds[1])
    /\ ~call.ret.ok
    /\ sink # <<>> /\ sink[Len(sink)].type = "add_error"


\* C16: the working directory is mutated at most once per pipeline run, only
\* by git_cd_to_repo_root, and that mutation comes before every command that
\* takes a path relative to the repository root (git add ., git diff -- .).
Moves == {i \in 1..Len(trace) : trace[i].type = "chdir" /\ trace[i].ok}
RootRelative(e) == IsCmd(e) /\ \E k \in 1..Len(e.args) : e.args[k] = Lit(".")
SameCommand(a, b) == a.prog = b.prog /\ a.args = b.args
IsTheReRead(i, j) ==
    /\ call.op = "git_main_branch"
    /\ i = 1 /\ j = 3
    /\ IsOriginRead(CallCmds[1]) /\ NonZero(CallCmds[1])
    /\ IsSetHead(CallCmds[2]) /\ ExitedZero(CallCmds[2])
C17_NoRetry ==
    /\ \A i \in 1..Len(CallCmds) : \A j \in (i + 1)..Len(CallCmds) :
          SameCommand(CallCmds[i], CallCmds[j]) => IsTheReRead(i, j)
    /\ \A i \in 1..Len(CallCmds) :
          (~ExitedZero(CallCmds[i]) /\ i < Len(CallCmds)) =>
              (call.op = "git_main_branch" /\ i = 1 /\ NonZero(CallCmds[1]))

\* the one repetition: origin/HEAD read again after set-head exited 0
C17_Witness ==
    /\ call.op = "git_main_branch"
    /\ Len(CallCmds) = 3
    /\ SameCommand(CallCmds[1], CallCmds[3])

\* C18: the process terminates only inside git_ensure_in_repo and
\* git_ensure_not_detached_head; every failure of branch resolution, sync,
\* diff, commit, push or publish comes back as an error result.
GuardChecks == {"git_ensure_in_repo", "git_ensure_not_detached_head"}
HasExit(ev) == \E k \in 1..Len(ev) : ev[k].type = "exit"
C18_OnlyGuardsTerminate ==
    /\ terminated => call.op \in GuardChecks
    /\ HasExit(trace) <=> terminated
    /\ call.op \in PostGuardOps =>
          /\ call.how = "return"
          /\ ~HasExit(call.ev)
          /\ ~ExitedZero(CallCmds[Len(CallCmds)]) => ~call.ret.ok

\* a sync that exited non-zero came back as an error, the process lives on
C18_Witness ==
    /\ call.op = "git_fetch_main"
    /\ NonZero(CallCmds[1])
    /\ ~call.ret.ok
    /\ ~terminated

\* C19: the renderer is invoked only on the detached-head fatal path and
\* before termination: the ERROR entry first, then render_message, then the
\* process terminates; no other operation renders.
C19_RenderThenTerminate ==
    \A i \in 1..Len(trace) :
        IsRender(trace[i]) =>
            /\ call.op = "git_ensure_not_detached_head" /\ call.args[1] = HEAD
            /\ i > 1
            /\ trace[i - 1].type = "add_log" /\ trace[i - 1].level = "ERROR"
            /\ i < Len(trace)
            /\ trace[i + 1].type = "exit"
            /\ terminated

\* C20: in git_main_branch, a first origin/HEAD read that succeeds is the
\* only command run (no auto-detect); a failed auto-detect command appends
\* the error to the sink and returns an error, with no re-read and no
\* "Determined main branch" entry.
IsDetermined(e) == e.type = "add_log" /\ e.fmt = "Determined main branch: {}"
C20_MainBranchShortCircuits ==
    call.op = "git_main_branch" =>
        /\ ExitedZero(CallCmds[1]) =>
              /\ Len(CallCmds) = 1
              /\ IsOriginRead(CallCmds[1])
        /\ (Len(CallCmds) >= 2 /\ ~ExitedZero(CallCmds[2])) =>
              /\ IsSetHead(CallCmds[2])
              /\ Len(CallCmds) = 2
              /\ call.how = "return" /\ ~call.ret.ok
              /\ \A k \in 1..Len(call.ev) : ~IsDetermined(call.ev[k])
        /\ (Len(CallCmds) >= 2 /\ NonZero(CallCmds[2])) =>
              /\ call.ev[Len(call.ev)].type = "add_error"
              /\ IsLossyOf(call.ev[Len(call.ev)].msg, CallCmds[2].out.stderr)
              /\ sink # <<>> /\ sink[Len(sink)] = call.ev[Len(call.ev)]

\* set-head exited non-zero: its stderr closes the sink and an error came back
C20_Witness ==
    /\ call.op = "git_main_branch"
    /\ Len(CallCmds) = 2
    /\ NonZero(CallCmds[2])
    /\ sink[Len(sink)].type = "add_error"
    /\ ~call.ret.ok

====
